---- MODULE Spec2Model ----
(***************************************************************************)
(* HLSLCodeGen (compiler/codegen/directx_codegen.py): the AST-to-HLSL text *)
(* generator.  Text is a sequence of one-character strings, so that        *)
(* str.strip(), slicing and line structure are computed, not assumed.      *)
(* Python values that the code formats or tests for truth are tagged       *)
(* records: PyStr, PyNone, PyInt, PyList.  AST nodes are records whose     *)
(* kind is the node's class name and whose fields are its attributes;      *)
(* names (of variables, members, functions) are texts.                     *)
(*                                                                         *)
(* Every method is a pure function of its arguments and is an operator of  *)
(* the same name.  Each specification draws the arguments of one method    *)
(* from a bounded set (input), and its action applies the method (out,     *)
(* and locals for the header clauses of generate_for).                     *)
(*                                                                         *)
(* A character is written as itself when a string literal can hold it,     *)
(* and by the name of its code point otherwise (control characters, the    *)
(* grave accent, non-ASCII characters): "U+00A0" is the no-break space.    *)
(*                                                                         *)
(* The one exception modelled is the TypeError that dict.get raises for an *)
(* unhashable key (a list): it ends the call that is running, so every     *)
(* method that reaches it returns it instead of a text.                    *)
(*                                                                         *)
(* Not modelled: str(expr) of an AST node (Python's default repr holds a   *)
(* memory address); repr of characters that are neither printable ASCII    *)
(* nor whitespace; ASTs whose attributes are missing or of another type    *)
(* than the code reads them as.                                            *)
(***************************************************************************)
EXTENDS Integers, Sequences, FiniteSets, TLC

VARIABLES input, out, pc, locals

vars == <<input, out, pc, locals>>

(***************************************************************************)
(* Bounds of the checked input sets.                                       *)
(***************************************************************************)
MaxCalls == 2
MaxExprDepth == 3
MaxArgs == 2
MaxStmtDepth == 2
MaxBody == 2
MaxIndent == 1
MaxParams == 2
MaxIO == 2
MaxFuncs == 2

(***************************************************************************)
(* Python values.                                                          *)
(***************************************************************************)
PyNone == [kind |-> "None"]

PyStr(s) == [kind |-> "str", s |-> s]

PyInt(n) == [kind |-> "int", n |-> n]

PyList(items) == [kind |-> "list", items |-> items]

\* A raised TypeError("unhashable type: 'list'"), as the value of a call.
Unhashable == [kind |-> "raise", exc |-> "TypeError"]

\* hash(v) succeeds: a list has no hash, None, str and int have one.
Hashable(v) == v.kind # "list"

\* The same exception where a text is expected: a text of one element that
\* is no character.  Propagate(t) is t unless an exception was raised while
\* t was built, and then it is the exception: nothing of the text is kept.
RaisedMark == "TypeError: unhashable type: 'list'"

Raised == <<RaisedMark>>

IsRaised(t) == \E i \in 1..Len(t) : t[i] = RaisedMark

Propagate(t) == IF IsRaised(t) THEN Raised ELSE t

\* bool(v): None, "", 0 and [] are false.
Truthy(v) ==
  CASE v.kind = "None" -> FALSE
    [] v.kind = "str"  -> v.s # <<>>
    [] v.kind = "int"  -> v.n # 0
    [] v.kind = "list" -> v.items # <<>>
    [] OTHER           -> TRUE

Digits == <<"0", "1", "2", "3", "4", "5", "6", "7", "8", "9">>

RECURSIVE NatToText(_)
NatToText(n) ==
  IF n < 10 THEN <<Digits[n + 1]>>
  ELSE NatToText(n \div 10) \o <<Digits[(n % 10) + 1]>>

\* The characters of a text.
Chars(t) == {t[i] : i \in 1..Len(t)}

\* The characters str.isprintable() accepts, among the ASCII ones.
Printable ==
  Chars(
    <<" ", "!", "\"", "#", "$", "%", "&", "'", "(", ")", "*", "+", ",",
       "-", ".", "/", "0", "1", "2", "3", "4", "5", "6", "7", "8", "9",
       ":", ";", "<", "=", ">", "?", "@", "A", "B", "C", "D", "E", "F",
       "G", "H", "I", "J", "K", "L", "M", "N", "O", "P", "Q", "R", "S",
       "T", "U", "V", "W", "X", "Y", "Z", "[", "\\", "]", "^", "_",
       "U+0060", "a", "b", "c", "d", "e", "f", "g", "h", "i", "j", "k",
       "l", "m", "n", "o", "p", "q", "r", "s", "t", "u", "v", "w", "x",
       "y", "z", "{", "|", "}", "~">>)

\* The escapes repr() writes for the characters of a str that it does not
\* copy: the backslash and the whitespace other than the space.
ReprEscapes ==
  { <<"\t", <<"\\", "t">>>>,
    <<"\n", <<"\\", "n">>>>,
    <<"U+000B", <<"\\", "x", "0", "b">>>>,
    <<"\f", <<"\\", "x", "0", "c">>>>,
    <<"\r", <<"\\", "r">>>>,
    <<"U+001C", <<"\\", "x", "1", "c">>>>,
    <<"U+001D", <<"\\", "x", "1", "d">>>>,
    <<"U+001E", <<"\\", "x", "1", "e">>>>,
    <<"U+001F", <<"\\", "x", "1", "f">>>>,
    <<"U+0085", <<"\\", "x", "8", "5">>>>,
    <<"U+00A0", <<"\\", "x", "a", "0">>>>,
    <<"U+1680", <<"\\", "u", "1", "6", "8", "0">>>>,
    <<"U+2000", <<"\\", "u", "2", "0", "0", "0">>>>,
    <<"U+2001", <<"\\", "u", "2", "0", "0", "1">>>>,
    <<"U+2002", <<"\\", "u", "2", "0", "0", "2">>>>,
    <<"U+2003", <<"\\", "u", "2", "0", "0", "3">>>>,
    <<"U+2004", <<"\\", "u", "2", "0", "0", "4">>>>,
    <<"U+2005", <<"\\", "u", "2", "0", "0", "5">>>>,
    <<"U+2006", <<"\\", "u", "2", "0", "0", "6">>>>,
    <<"U+2007", <<"\\", "u", "2", "0", "0", "7">>>>,
    <<"U+2008", <<"\\", "u", "2", "0", "0", "8">>>>,
    <<"U+2009", <<"\\", "u", "2", "0", "0", "9">>>>,
    <<"U+200A", <<"\\", "u", "2", "0", "0", "a">>>>,
    <<"U+2028", <<"\\", "u", "2", "0", "2", "8">>>>,
    <<"U+2029", <<"\\", "u", "2", "0", "2", "9">>>>,
    <<"U+202F", <<"\\", "u", "2", "0", "2", "f">>>>,
    <<"U+205F", <<"\\", "u", "2", "0", "5", "f">>>>,
    <<"U+3000", <<"\\", "u", "3", "0", "0", "0">>>>,
    <<"\\", <<"\\", "\\">>>> }

\* repr(c) of one character of a str delimited by quote.
ReprChar(c, quote) ==
  CASE \E p \in ReprEscapes : p[1] = c ->
         (CHOOSE p \in ReprEscapes : p[1] = c)[2]
    [] c = quote -> <<"\\", c>>
    [] c \in Printable /\ c # quote /\ c # "\\" -> <<c>>

\* repr(s) of a str: in double quotes when s holds a single quote and no
\* double quote, in single quotes otherwise.
ReprStr(s) ==
  LET quote == IF "'" \in Chars(s) /\ "\"" \notin Chars(s) THEN "\"" ELSE "'"
      body[i \in 0..Len(s)] ==
        IF i = 0 THEN <<>> ELSE body[i - 1] \o ReprChar(s[i], quote)
  IN  <<quote>> \o body[Len(s)] \o <<quote>>

RECURSIVE Repr(_)
\* repr(v) of None, an int, a str, and a list of such values.
Repr(v) ==
  CASE v.kind = "str"  -> ReprStr(v.s)
    [] v.kind = "None" -> <<"N", "o", "n", "e">>
    [] v.kind = "int"  -> IF v.n < 0 THEN <<"-">> \o NatToText(-v.n)
                          ELSE NatToText(v.n)
    [] v.kind = "list" ->
         LET items[i \in 0..Len(v.items)] ==
               IF i = 0 THEN <<>>
               ELSE items[i - 1] \o (IF i > 1 THEN <<",", " ">> ELSE <<>>)
                    \o Repr(v.items[i])
         IN  <<"[">> \o items[Len(v.items)] \o <<"]">>

\* str(v), as an f-string field formats v; of a call that raised, the
\* exception.
Str(v) ==
  CASE v.kind = "str"   -> v.s
    [] v.kind = "raise" -> Raised
    [] v.kind \in {"None", "int", "list"} -> Repr(v)

(***************************************************************************)
(* Text helpers: str.strip(), s[:-1], line structure.                      *)
(***************************************************************************)
\* The characters str.isspace() accepts, which str.strip() removes.
Whitespace ==
  <<"\t", "\n", "U+000B", "\f", "\r", "U+001C", "U+001D", "U+001E",
     "U+001F", " ", "U+0085", "U+00A0", "U+1680", "U+2000", "U+2001",
     "U+2002", "U+2003", "U+2004", "U+2005", "U+2006", "U+2007",
     "U+2008", "U+2009", "U+200A", "U+2028", "U+2029", "U+202F",
     "U+205F", "U+3000">>

IsSpace(c) == c \in Chars(Whitespace)

RECURSIVE LStrip(_)
LStrip(s) ==
  IF s # <<>> /\ IsSpace(Head(s)) THEN LStrip(Tail(s)) ELSE s

RECURSIVE RStrip(_)
RStrip(s) ==
  IF s # <<>> /\ IsSpace(s[Len(s)]) THEN RStrip(SubSeq(s, 1, Len(s) - 1))
  ELSE s

Strip(s) == RStrip(LStrip(s))

\* s[:-1]
DropLast(s) == SubSeq(s, 1, Len(s) - 1)

\* "    " * indent
RECURSIVE Indent(_)
Indent(indent) ==
  IF indent <= 0 THEN <<>> ELSE <<" ", " ", " ", " ">> \o Indent(indent - 1)

(***************************************************************************)
(* AST nodes (the classes imported from ..ast).                            *)
(***************************************************************************)
VariableNode(vtype, name) ==
  [kind |-> "VariableNode", vtype |-> vtype, name |-> name]

BinaryOpNode(left, op, right) ==
  [kind |-> "BinaryOpNode", left |-> left, op |-> op, right |-> right]

FunctionCallNode(name, args) ==
  [kind |-> "FunctionCallNode", name |-> name, args |-> args]

MemberAccessNode(object, member) ==
  [kind |-> "MemberAccessNode", object |-> object, member |-> member]

AssignmentNode(name, value) ==
  [kind |-> "AssignmentNode", name |-> name, value |-> value]

ReturnNode(value) == [kind |-> "ReturnNode", value |-> value]

IfNode(condition, if_body, else_body) ==
  [kind |-> "IfNode", condition |-> condition, if_body |-> if_body,
   else_body |-> else_body]

ForNode(init, condition, update, body) ==
  [kind |-> "ForNode", init |-> init, condition |-> condition,
   update |-> update, body |-> body]

FunctionNode(return_type, name, params, body) ==
  [kind |-> "FunctionNode", return_type |-> return_type, name |-> name,
   params |-> params, body |-> body]

ShaderNode(inputs, outputs, functions) ==
  [kind |-> "ShaderNode", inputs |-> inputs, outputs |-> outputs,
   functions |-> functions]

(***************************************************************************)
(* map_type, map_operator: dict.get(key, key) on a fixed table.            *)
(***************************************************************************)
type_mapping ==
  { <<<<"v", "o", "i", "d">>, <<"v", "o", "i", "d">>>>,
    <<<<"v", "e", "c", "2">>, <<"f", "l", "o", "a", "t", "2">>>>,
    <<<<"v", "e", "c", "3">>, <<"f", "l", "o", "a", "t", "3">>>>,
    <<<<"v", "e", "c", "4">>, <<"f", "l", "o", "a", "t", "4">>>>,
    <<<<"m", "a", "t", "2">>, <<"f", "l", "o", "a", "t", "2", "x", "2">>>>,
    <<<<"m", "a", "t", "3">>, <<"f", "l", "o", "a", "t", "3", "x", "3">>>>,
    <<<<"m", "a", "t", "4">>, <<"f", "l", "o", "a", "t", "4", "x", "4">>>>,
    <<<<"s", "a", "m", "p", "l", "e", "r", "2", "D">>, <<"T", "e", "x", "t", "u", "r", "e", "2", "D">>>> }

op_map ==
  { <<<<"P", "L", "U", "S">>, <<"+">>>>,
    <<<<"M", "I", "N", "U", "S">>, <<"-">>>>,
    <<<<"M", "U", "L", "T", "I", "P", "L", "Y">>, <<"*">>>>,
    <<<<"D", "I", "V", "I", "D", "E">>, <<"/">>>>,
    <<<<"L", "E", "S", "S", "_", "T", "H", "A", "N">>, <<"<">>>>,
    <<<<"G", "R", "E", "A", "T", "E", "R", "_", "T", "H", "A", "N">>, <<">">>>>,
    <<<<"L", "E", "S", "S", "_", "E", "Q", "U", "A", "L">>, <<"<", "=">>>>,
    <<<<"G", "R", "E", "A", "T", "E", "R", "_", "E", "Q", "U", "A", "L">>, <<">", "=">>>>,
    <<<<"E", "Q", "U", "A", "L">>, <<"=", "=">>>>,
    <<<<"N", "O", "T", "_", "E", "Q", "U", "A", "L">>, <<"!", "=">>>>,
    <<<<"A", "N", "D">>, <<"&", "&">>>>,
    <<<<"O", "R">>, <<"|", "|">>>> }

\* table.get(key, default) for a table given as a set of <<key, value>>:
\* the key is hashed first, which raises for a list; a key that is no str
\* equals no key of the table.
DictGet(table, key, default) ==
  IF ~Hashable(key) THEN Unhashable
  ELSE IF key.kind = "str" /\ \E p \in table : p[1] = key.s
  THEN PyStr((CHOOSE p \in table : p[1] = key.s)[2])
  ELSE default

\* A plausible slip: .get(vtype) without the default.
map_type_NoFallback(vtype) == DictGet(type_mapping, vtype, PyNone)

map_type(vtype) == DictGet(type_mapping, vtype, vtype)

map_operator(op) == DictGet(op_map, op, op)

(***************************************************************************)
(* generate_expression                                                     *)
(***************************************************************************)
RECURSIVE generate_expression(_)
RECURSIVE JoinExpressions(_, _)
RECURSIVE generate_expression_BareProduct(_)

\* ", ".join(self.generate_expression(arg) for arg in args), from index i.
JoinExpressions(args, i) ==
  Propagate(
    IF i > Len(args) THEN <<>>
    ELSE generate_expression(args[i])
         \o (IF i < Len(args) THEN <<",", " ">> ELSE <<>>)
         \o JoinExpressions(args, i + 1))

\* A plausible slip: parentheses left out where precedence seems to allow it.
generate_expression_BareProduct(expr) ==
  Propagate(
    CASE expr.kind = "str" -> expr.s
      [] expr.kind = "VariableNode" -> expr.name
      [] expr.kind = "BinaryOpNode" ->
           IF expr.op = PyStr(<<"M", "U", "L", "T", "I", "P", "L", "Y">>)
           THEN generate_expression(expr.left) \o <<" ">>
                \o Str(map_operator(expr.op)) \o <<" ">>
                \o generate_expression(expr.right)
           ELSE <<"(">> \o generate_expression(expr.left) \o <<" ">>
                \o Str(map_operator(expr.op)) \o <<" ">>
                \o generate_expression(expr.right) \o <<")">>
      [] expr.kind = "FunctionCallNode" ->
           expr.name \o <<"(">> \o JoinExpressions(expr.args, 1) \o <<")">>
      [] expr.kind = "MemberAccessNode" ->
           generate_expression(expr.object) \o <<".">> \o expr.member
      [] OTHER -> Str(expr))

generate_expression(expr) ==
  Propagate(
    CASE expr.kind = "str" -> expr.s
      [] expr.kind = "VariableNode" -> expr.name
      [] expr.kind = "BinaryOpNode" ->
           <<"(">> \o generate_expression(expr.left) \o <<" ">>
           \o Str(map_operator(expr.op)) \o <<" ">>
           \o generate_expression(expr.right) \o <<")">>
      [] expr.kind = "FunctionCallNode" ->
           expr.name \o <<"(">> \o JoinExpressions(expr.args, 1) \o <<")">>
      [] expr.kind = "MemberAccessNode" ->
           generate_expression(expr.object) \o <<".">> \o expr.member
      [] OTHER -> Str(expr))

(***************************************************************************)
(* generate_statement, generate_assignment, generate_if, generate_for      *)
(***************************************************************************)
RECURSIVE generate_statement(_, _)
RECURSIVE generate_if(_, _)
RECURSIVE generate_for(_, _)
RECURSIVE GenerateBody(_, _, _)

\* for stmt in body: code += self.generate_statement(stmt, indent), from i.
GenerateBody(body, indent, i) ==
  Propagate(
    IF i > Len(body) THEN <<>>
    ELSE generate_statement(body[i], indent) \o GenerateBody(body, indent, i + 1))

generate_assignment(node) ==
  Propagate(
    IF node.name.kind = "VariableNode" /\ Truthy(node.name.vtype)
    THEN Str(map_type(node.name.vtype)) \o <<" ">> \o node.name.name \o <<" ", "=", " ">>
         \o generate_expression(node.value)
    ELSE generate_expression(node.name) \o <<" ", "=", " ">>
         \o generate_expression(node.value))

\* A plausible slip: the blocks of a conditional rendered at its own depth.
generate_if_FlatBody(node, indent) ==
  Propagate(
    Indent(indent) \o <<"i", "f", " ", "(">> \o generate_expression(node.condition)
    \o <<")", " ", "{", "\n">>
    \o GenerateBody(node.if_body, indent, 1)
    \o Indent(indent) \o <<"}">>
    \o (IF Truthy(node.else_body)
        THEN <<" ", "e", "l", "s", "e", " ", "{", "\n">>
             \o GenerateBody(node.else_body.items, indent, 1)
             \o Indent(indent) \o <<"}">>
        ELSE <<>>)
    \o <<"\n">>)

generate_if(node, indent) ==
  Propagate(
    Indent(indent) \o <<"i", "f", " ", "(">> \o generate_expression(node.condition)
    \o <<")", " ", "{", "\n">>
    \o GenerateBody(node.if_body, indent + 1, 1)
    \o Indent(indent) \o <<"}">>
    \o (IF Truthy(node.else_body)
        THEN <<" ", "e", "l", "s", "e", " ", "{", "\n">>
             \o GenerateBody(node.else_body.items, indent + 1, 1)
             \o Indent(indent) \o <<"}">>
        ELSE <<>>)
    \o <<"\n">>)

\* The local init of generate_for.
for_init(node) ==
  IF node.init.kind = "AssignmentNode" /\ node.init.name.kind = "VariableNode"
  THEN Propagate(Str(map_type(node.init.name.vtype)) \o <<" ">>
                 \o node.init.name.name
                 \o <<" ", "=", " ">> \o generate_expression(node.init.value))
  ELSE LET code == generate_statement(node.init, 0)
       IN  IF IsRaised(code) THEN Raised ELSE DropLast(Strip(code))

\* The local update of generate_for.
for_update(node) ==
  LET code == generate_statement(node.update, 0)
  IN  IF IsRaised(code) THEN Raised ELSE DropLast(Strip(code))

\* The locals init, condition and update of generate_for that are bound when
\* it returns or raises, by name: they are computed in this order, and a
\* call that raises binds nothing and ends the method.
for_locals(node) ==
  LET init == for_init(node)
      condition == generate_expression(node.condition)
      update == for_update(node)
  IN  IF IsRaised(init) THEN <<>>
      ELSE IF IsRaised(condition) THEN [init |-> init]
      ELSE IF IsRaised(update) THEN [init |-> init, condition |-> condition]
      ELSE [init |-> init, condition |-> condition, update |-> update]

generate_for(node, indent) ==
  Propagate(
    Indent(indent) \o <<"f", "o", "r", " ", "(">> \o for_init(node) \o <<";", " ">>
    \o generate_expression(node.condition) \o <<";", " ">>
    \o for_update(node) \o <<")", " ", "{", "\n">>
    \o GenerateBody(node.body, indent + 1, 1)
    \o Indent(indent) \o <<"}", "\n">>)

generate_statement(stmt, indent) ==
  Propagate(
    CASE stmt.kind = "AssignmentNode" ->
           Indent(indent) \o generate_assignment(stmt) \o <<";", "\n">>
      [] stmt.kind = "IfNode" -> generate_if(stmt, indent)
      [] stmt.kind = "ForNode" -> generate_for(stmt, indent)
      [] stmt.kind = "ReturnNode" ->
           Indent(indent) \o <<"r", "e", "t", "u", "r", "n", " ">> \o generate_expression(stmt.value)
           \o <<";", "\n">>
      [] OTHER -> Indent(indent) \o generate_expression(stmt) \o <<";", "\n">>)

(***************************************************************************)
(* generate_function, generate_shader, generate                            *)
(***************************************************************************)
RECURSIVE JoinParams(_, _)
\* ", ".join(f"{self.map_type(param[0])} {param[1]}" for param in params)
JoinParams(params, i) ==
  Propagate(
    IF i > Len(params) THEN <<>>
    ELSE Str(map_type(params[i][1])) \o <<" ">> \o params[i][2]
         \o (IF i < Len(params) THEN <<",", " ">> ELSE <<>>)
         \o JoinParams(params, i + 1))

\* A plausible slip: the entry point recognised whatever the case of its name.
generate_function_AnyCaseMain(node) ==
  Propagate(
    LET isMain == node.name \in {<<"m", "a", "i", "n">>, <<"M", "a", "i", "n">>}
        params == IF isMain THEN <<"V", "S", "_", "I", "N", "P", "U", "T", " ", "i", "n", "p", "u", "t">>
                  ELSE JoinParams(node.params, 1)
        return_type == IF isMain THEN <<"P", "S", "_", "O", "U", "T", "P", "U", "T">>
                       ELSE Str(map_type(node.return_type))
    IN  return_type \o <<" ">> \o node.name \o <<"(">> \o params \o <<")", " ", "{", "\n">>
        \o (IF isMain THEN <<" ", " ", " ", " ", "P", "S", "_", "O", "U", "T", "P", "U", "T", " ", "o", "u", "t", "p", "u", "t", ";", "\n">> ELSE <<>>)
        \o GenerateBody(node.body, 1, 1)
        \o (IF isMain THEN <<" ", " ", " ", " ", "r", "e", "t", "u", "r", "n", " ", "o", "u", "t", "p", "u", "t", ";", "\n">> ELSE <<>>)
        \o <<"}", "\n">>)

generate_function(node) ==
  Propagate(
    LET isMain == node.name = <<"m", "a", "i", "n">>
        params == IF isMain THEN <<"V", "S", "_", "I", "N", "P", "U", "T", " ", "i", "n", "p", "u", "t">>
                  ELSE JoinParams(node.params, 1)
        return_type == IF isMain THEN <<"P", "S", "_", "O", "U", "T", "P", "U", "T">>
                       ELSE Str(map_type(node.return_type))
    IN  return_type \o <<" ">> \o node.name \o <<"(">> \o params \o <<")", " ", "{", "\n">>
        \o (IF isMain THEN <<" ", " ", " ", " ", "P", "S", "_", "O", "U", "T", "P", "U", "T", " ", "o", "u", "t", "p", "u", "t", ";", "\n">> ELSE <<>>)
        \o GenerateBody(node.body, 1, 1)
        \o (IF isMain THEN <<" ", " ", " ", " ", "r", "e", "t", "u", "r", "n", " ", "o", "u", "t", "p", "u", "t", ";", "\n">> ELSE <<>>)
        \o <<"}", "\n">>)

RECURSIVE StructFields(_, _, _)
RECURSIVE StructFields_FromOne(_, _, _)
\* A plausible slip: enumerate(params, 1), the indices counted from 1.
StructFields_FromOne(params, semantic, i) ==
  Propagate(
    IF i >= Len(params) THEN <<>>
    ELSE <<" ", " ", " ", " ">> \o Str(map_type(params[i + 1][1])) \o <<" ">>
         \o params[i + 1][2] \o <<" ", ":", " ">> \o semantic \o NatToText(i + 1)
         \o <<";", "\n">>
         \o StructFields(params, semantic, i + 1))

\* for i, (vtype, name) in enumerate(params): one field line, from index i
\* (0-based), tagged with semantic and i.
StructFields(params, semantic, i) ==
  Propagate(
    IF i >= Len(params) THEN <<>>
    ELSE <<" ", " ", " ", " ">> \o Str(map_type(params[i + 1][1])) \o <<" ">>
         \o params[i + 1][2] \o <<" ", ":", " ">> \o semantic \o NatToText(i) \o <<";", "\n">>
         \o StructFields(params, semantic, i + 1))

RECURSIVE GenerateFunctions(_, _)
RECURSIVE GenerateFunctions_NoBlankLine(_, _)
\* A plausible slip: the "\n" after each function left out.
GenerateFunctions_NoBlankLine(functions, i) ==
  Propagate(
    IF i > Len(functions) THEN <<>>
    ELSE generate_function(functions[i])
         \o GenerateFunctions_NoBlankLine(functions, i + 1))

\* for function in node.functions: code += generate_function(function) + "\n"
GenerateFunctions(functions, i) ==
  Propagate(
    IF i > Len(functions) THEN <<>>
    ELSE generate_function(functions[i]) \o <<"\n">>
         \o GenerateFunctions(functions, i + 1))

generate_shader(node) ==
  Propagate(
    <<"s", "t", "r", "u", "c", "t", " ", "V", "S", "_", "I", "N", "P", "U", "T", " ", "{", "\n">>
    \o StructFields(node.inputs, <<"P", "O", "S", "I", "T", "I", "O", "N">>, 0)
    \o <<"}", ";", "\n", "\n">>
    \o <<"s", "t", "r", "u", "c", "t", " ", "P", "S", "_", "O", "U", "T", "P", "U", "T", " ", "{", "\n">>
    \o StructFields(node.outputs, <<"S", "V", "_", "T", "A", "R", "G", "E", "T">>, 0)
    \o <<"}", ";", "\n", "\n">>
    \o GenerateFunctions(node.functions, 1))

generate(ast) ==
  IF ast.kind = "ShaderNode" THEN generate_shader(ast) ELSE <<>>

(***************************************************************************)
(* Inputs of the mapper checks: the type names and operator tokens an AST  *)
(* carries.  Every table key of both tables, and values that are keys of   *)
(* neither: names (also "", a key in another case, a key of the other      *)
(* table), None and an int.                                                *)
(***************************************************************************)
TableKeys == {PyStr(p[1]) : p \in type_mapping \cup op_map}

UnknownKeys ==
  { PyStr(<<>>), PyNone, PyStr(<<"i", "n", "t">>), PyStr(<<"f", "l", "o", "a", "t">>), PyStr(<<"V", "e", "c", "3">>),
    PyStr(<<"v", "e", "c">>), PyStr(<<"f", "l", "o", "a", "t", "3">>), PyStr(<<"p", "l", "u", "s">>), PyStr(<<"M", "O", "D">>),
    PyStr(<<"+">>), PyInt(3) }

MapKeys == TableKeys \cup UnknownKeys

InitMap ==
  /\ input \in [fn : {"map_type", "map_operator"}, arg : MapKeys]
  /\ out = <<>>
  /\ pc = "ready"
  /\ locals = <<>>

\* One more call of map_type on the same argument; out keeps every result.
CallMapType ==
  /\ input.fn = "map_type"
  /\ Len(out) < MaxCalls
  /\ out' = Append(out, map_type(input.arg))
  /\ pc' = "done"
  /\ UNCHANGED <<input, locals>>

CallMapOperator ==
  /\ input.fn = "map_operator"
  /\ Len(out) < MaxCalls
  /\ out' = Append(out, map_operator(input.arg))
  /\ pc' = "done"
  /\ UNCHANGED <<input, locals>>

NextMap == CallMapType \/ CallMapOperator

SpecMap == InitMap /\ [][NextMap]_vars

(***************************************************************************)
(* C7: map_type and map_operator return the table's target spelling for a  *)
(* key of their table and the argument itself, unchanged, for every other  *)
(* argument; no call fails, and every repeated call on the same argument   *)
(* gives that result.                                                      *)
(***************************************************************************)
Table(fn) == IF fn = "map_type" THEN type_mapping ELSE op_map

IsKey(table, arg) == arg.kind = "str" /\ \E p \in table : p[1] = arg.s

C7_MapperTableOrIdentity ==
  \A k \in 1..Len(out) :
    (pc = "done" /\ input.fn \in {"map_type", "map_operator"}) =>
      /\ out[k].kind # "raise"
      /\ \A p \in Table(input.fn) :
           input.arg = PyStr(p[1]) => out[k] = PyStr(p[2])
      /\ ~IsKey(Table(input.fn), input.arg) => out[k] = input.arg

\* map_type was called MaxCalls times on a name that is no key of its table.
C7_Witness ==
  /\ pc = "done"
  /\ Len(out) = MaxCalls
  /\ input.fn = "map_type"
  /\ input.arg = PyStr(<<"M", "O", "D">>)
  /\ out[1] = PyStr(<<"M", "O", "D">>)
  /\ out[MaxCalls] = PyStr(<<"M", "O", "D">>)

(***************************************************************************)
(* Expressions of bounded depth.  A node has at most one operand that is   *)
(* not the literal 1.0, which keeps the set small without fixing the shape *)
(* of the nesting: operators inside call arguments, member objects and     *)
(* either operand.                                                         *)
(***************************************************************************)
One == PyStr(<<"1", ".", "0">>)

ExprAtoms == { One, VariableNode(PyStr(<<>>), <<"a">>), PyInt(7) }

ExprOps == { PyStr(<<"M", "U", "L", "T", "I", "P", "L", "Y">>), PyStr(<<"M", "O", "D">>) }

\* Argument lists of length 1..MaxArgs: e first or last, 1.0 elsewhere.
ArgLists(E) ==
  { [i \in 1..n |-> IF i = p THEN e ELSE One] :
      <<n, p, e>> \in { t \in (1..MaxArgs) \X (1..MaxArgs) \X E :
                          t[2] \in {1, t[1]} } }

RECURSIVE Exprs(_)
Exprs(d) ==
  IF d = 0 THEN ExprAtoms
  ELSE LET E == Exprs(d - 1) IN
       ExprAtoms
       \cup { BinaryOpNode(l, op, One) : <<l, op>> \in E \X ExprOps }
       \cup { BinaryOpNode(One, op, r) : <<op, r>> \in ExprOps \X E }
       \cup { FunctionCallNode(<<"f">>, args) : args \in {<<>>} \cup ArgLists(E) }
       \cup { MemberAccessNode(o, <<"x", "y", "z">>) : o \in E }

InitExpr ==
  /\ input \in Exprs(MaxExprDepth)
  /\ out = <<>>
  /\ pc = "ready"
  /\ locals = <<>>

GenerateExpression ==
  /\ pc = "ready"
  /\ out' = generate_expression(input)
  /\ pc' = "done"
  /\ UNCHANGED <<input, locals>>

NextExpr == GenerateExpression

SpecExpr == InitExpr /\ [][NextExpr]_vars

\* Whether text t occurs in text s as a contiguous run.
Contains(s, t) ==
  \E i \in 0..(Len(s) - Len(t)) : SubSeq(s, i + 1, i + Len(t)) = t

RECURSIVE SubExprs(_)
SubExprs(e) ==
  {e} \cup
  CASE e.kind = "BinaryOpNode" -> SubExprs(e.left) \cup SubExprs(e.right)
    [] e.kind = "FunctionCallNode" ->
         UNION { SubExprs(e.args[i]) : i \in 1..Len(e.args) }
    [] e.kind = "MemberAccessNode" -> SubExprs(e.object)
    [] OTHER -> {}

(***************************************************************************)
(* C4: every BinaryOp node, at any depth of the rendered expression, is    *)
(* rendered as "(" left " " operator " " right ")": that text starts with  *)
(* "(" and ends with ")" and occurs in the output.                         *)
(***************************************************************************)
C4_BinaryOpParenthesized ==
  pc = "done" =>
    \A b \in {e \in SubExprs(input) : e.kind = "BinaryOpNode"} :
      LET t == generate_expression(b) IN
        /\ Head(t) = "("
        /\ t[Len(t)] = ")"
        /\ t = <<"(">> \o generate_expression(b.left) \o <<" ">>
               \o Str(map_operator(b.op)) \o <<" ">>
               \o generate_expression(b.right) \o <<")">>
        /\ Contains(out, t)
        /\ (b = input => out = t)

\* A product in a call argument, the call being an operand of another
\* operator, was rendered.
C4_Witness ==
  /\ pc = "done"
  /\ input.kind = "BinaryOpNode"
  /\ input.right.kind = "FunctionCallNode"
  /\ Len(input.right.args) = 2
  /\ input.right.args[2].kind = "BinaryOpNode"
  /\ out = <<"(", "1", ".", "0", " ", "M", "O", "D", " ", "f", "(", "1", ".", "0", ",", " ", "(", "a", " ", "*", " ", "1", ".", "0", ")", ")", ")">>

(***************************************************************************)
(* Statements of bounded nesting.                                          *)
(***************************************************************************)
Var(name) == VariableNode(PyStr(<<>>), name)

\* float3 v = 1.0;   x = (x + 1.0);   return output;   f();
TypedAssign == AssignmentNode(VariableNode(PyStr(<<"v", "e", "c", "3">>), <<"v">>), PyStr(<<"1", ".", "0">>))

PlainAssign ==
  AssignmentNode(Var(<<"x">>), BinaryOpNode(Var(<<"x">>), PyStr(<<"P", "L", "U", "S">>), PyStr(<<"1", ".", "0">>)))

ReturnOutput == ReturnNode(Var(<<"o", "u", "t", "p", "u", "t">>))

CallStmt == FunctionCallNode(<<"f">>, <<>>)

SimpleStmts == { TypedAssign, PlainAssign, ReturnOutput }

Cond == BinaryOpNode(Var(<<"i">>), PyStr(<<"L", "E", "S", "S", "_", "T", "H", "A", "N">>), PyStr(<<"4">>))

\* Loop clauses.  int i = 0 / i = (i + 1) is the classic header; the others
\* are the remaining statement variants in the init and update places.
TypedInit == AssignmentNode(VariableNode(PyStr(<<"i", "n", "t">>), <<"i">>), PyStr(<<"0">>))

EmptyTypeInit == AssignmentNode(Var(<<"i">>), PyStr(<<"0">>))

NoneTypeInit == AssignmentNode(VariableNode(PyNone, <<"i">>), PyStr(<<"0">>))

MemberInit ==
  AssignmentNode(MemberAccessNode(Var(<<"p">>), <<"x">>), PyStr(<<"0">>))

Step ==
  AssignmentNode(Var(<<"i">>), BinaryOpNode(Var(<<"i">>), PyStr(<<"P", "L", "U", "S">>), PyStr(<<"1">>)))

IfClause == IfNode(Var(<<"c">>), <<PlainAssign>>, PyNone)

EmptyIfClause == IfNode(Var(<<"c">>), <<>>, PyNone)

ForClause == ForNode(TypedInit, Cond, Step, <<CallStmt>>)

ClausePairs ==
  { <<TypedInit, Step>>, <<EmptyTypeInit, CallStmt>>,
    <<NoneTypeInit, ReturnNode(Var(<<"i">>))>>, <<MemberInit, IfClause>>,
    <<CallStmt, EmptyIfClause>>, <<ReturnNode(PyNone), ForClause>>,
    <<IfClause, Step>>, <<ForClause, Step>> }

\* Blocks: empty, s alone, and MaxBody statements with s first or last and
\* PlainAssign in the other places.
Bodies(S) ==
  {<<>>} \cup { <<s>> : s \in S }
  \cup { [i \in 1..MaxBody |-> IF i = p THEN s ELSE PlainAssign] :
           <<p, s>> \in {1, MaxBody} \X S }

\* Nested statements: conditionals with and without else, classic loops.
RECURSIVE Inner(_)
Inner(d) ==
  IF d = 0 THEN SimpleStmts
  ELSE LET B == Bodies(Inner(d - 1)) IN
       SimpleStmts
       \cup { IfNode(Cond, b, PyNone) : b \in B }
       \cup { IfNode(Cond, <<CallStmt>>, PyList(b)) : b \in B \ {<<>>} }
       \cup { ForNode(TypedInit, Cond, Step, b) : b \in B }

\* The statements rendered: the nested ones, a call statement,
\* conditionals whose else body is an empty list, and loops with every
\* clause pair.
Stmts ==
  Inner(MaxStmtDepth)
  \cup { CallStmt }
  \cup { IfNode(Cond, b, PyList(<<>>)) : b \in Bodies(Inner(1)) }
  \cup { ForNode(c[1], Cond, c[2], b) :
           <<c, b>> \in ClausePairs \X Bodies(SimpleStmts) }

InitStmt ==
  /\ input \in [stmt : Stmts, indent : 0..MaxIndent]
  /\ out = <<>>
  /\ pc = "ready"
  /\ locals = <<>>

\* generate_statement(stmt, indent); for a loop, locals keeps the header
\* clauses generate_for had computed when it returned or raised.
GenerateStatement ==
  /\ pc = "ready"
  /\ out' = generate_statement(input.stmt, input.indent)
  /\ locals' = IF input.stmt.kind = "ForNode" THEN for_locals(input.stmt)
               ELSE <<>>
  /\ pc' = "done"
  /\ UNCHANGED input

NextStmt == GenerateStatement

SpecStmt == InitStmt /\ [][NextStmt]_vars

(***************************************************************************)
(* Reading the output: lines, occurrences, leading spaces.                 *)
(***************************************************************************)
\* The lines of s: the runs between line breaks; a final run without a line
\* break is a line too.
SplitLines(s) ==
  LET ends == {i \in 1..Len(s) : s[i] = "\n"}
              \cup (IF s # <<>> /\ s[Len(s)] # "\n" THEN {Len(s) + 1} ELSE {})
      before(e) == {x \in ends : x < e}
      start(e) == IF before(e) = {} THEN 1
                  ELSE (CHOOSE x \in before(e) : \A y \in before(e) : y <= x) + 1
      nth(k) == CHOOSE e \in ends : Cardinality(before(e)) = k - 1
  IN  [k \in 1..Cardinality(ends) |-> SubSeq(s, start(nth(k)), nth(k) - 1)]

Spaces(n) == [i \in 1..n |-> " "]

\* Line l begins with exactly n spaces: n spaces, then a character that is
\* no space.
BeginsWithExactly(l, n) ==
  /\ Len(l) > n
  /\ \A i \in 1..n : l[i] = " "
  /\ l[n + 1] # " "

\* Text t occurs in s, starting where a line of s starts.
OccursAtLineStart(s, t) ==
  \E i \in 0..(Len(s) - Len(t)) :
    /\ i = 0 \/ s[i] = "\n"
    /\ SubSeq(s, i + 1, i + Len(t)) = t

EndsWith(s, t) ==
  Len(t) <= Len(s) /\ SubSeq(s, Len(s) - Len(t) + 1, Len(s)) = t

\* t ends with ";", or with ";" followed only by whitespace.
EndsWithTerminator(t) ==
  LET r == RStrip(t) IN r # <<>> /\ r[Len(r)] = ";"

RECURSIVE Placed(_, _)
\* Every statement of the blocks of stmt, stmt included, with its depth:
\* stmt is at depth d and each then-block, else-block or loop body adds 1.
Placed(stmt, d) ==
  {<<stmt, d>>} \cup
  CASE stmt.kind = "IfNode" ->
         UNION { Placed(stmt.if_body[i], d + 1) : i \in 1..Len(stmt.if_body) }
         \cup (IF stmt.else_body.kind = "list"
               THEN UNION { Placed(stmt.else_body.items[i], d + 1) :
                              i \in 1..Len(stmt.else_body.items) }
               ELSE {})
    [] stmt.kind = "ForNode" ->
         UNION { Placed(stmt.body[i], d + 1) : i \in 1..Len(stmt.body) }
    [] OTHER -> {}

(***************************************************************************)
(* C5: the init and update texts of a loop header never end with ";", nor  *)
(* with ";" followed only by whitespace, whatever statements the clauses   *)
(* are.                                                                    *)
(***************************************************************************)
C5_ClausesEndWithoutTerminator ==
  pc = "done" /\ input.stmt.kind = "ForNode" =>
    /\ ~EndsWithTerminator(locals.init)
    /\ ~EndsWithTerminator(locals.update)

(***************************************************************************)
(* C8: the init clause of a loop header is the typed declaration           *)
(* "Type name = value" only for an assignment whose target carries a       *)
(* declared type; for every other init it is the statement rendering at    *)
(* depth 0, stripped, without its terminator.                              *)
(***************************************************************************)
C8_InitTypedOnlyWhenDeclared ==
  pc = "done" /\ input.stmt.kind = "ForNode" =>
    LET init == input.stmt.init
        declared == /\ init.kind = "AssignmentNode"
                    /\ init.name.kind = "VariableNode"
                    /\ Truthy(init.name.vtype)
    IN  locals.init =
          IF declared
          THEN Str(map_type(init.name.vtype)) \o <<" ">> \o init.name.name
               \o <<" ", "=", " ">> \o generate_expression(init.value)
          ELSE DropLast(Strip(generate_statement(init, 0)))

(***************************************************************************)
(* C9: a conditional rendered at depth d has an else clause exactly when   *)
(* the node has an else body, an empty one included: then the output ends  *)
(* with "} else {", the else statements at depth d+1 and "}" at depth d;   *)
(* without an else body no "} else {" line at depth d is emitted.          *)
(***************************************************************************)
C9_ElseIffElseBody ==
  pc = "done" /\ input.stmt.kind = "IfNode" =>
    LET d == input.indent
        e == input.stmt.else_body
        elseLine == Spaces(4 * d) \o <<"}", " ", "e", "l", "s", "e", " ", "{">>
    IN  IF e.kind = "list"
        THEN EndsWith(out, elseLine \o <<"\n">>
                           \o GenerateBody(e.items, d + 1, 1)
                           \o Spaces(4 * d) \o <<"}", "\n">>)
        ELSE \A k \in 1..Len(SplitLines(out)) : SplitLines(out)[k] # elseLine

(***************************************************************************)
(* C10: every statement at depth d is rendered starting on a line of its   *)
(* own that begins with exactly 4*d spaces; the line closing a conditional *)
(* or a loop at depth d is "}" after exactly 4*d spaces, and so is the     *)
(* "} else {" line of a conditional.                                       *)
(***************************************************************************)
C10_IndentationFollowsDepth ==
  pc = "done" =>
    \A sd \in Placed(input.stmt, input.indent) :
      LET t == sd[1]
          d == sd[2]
          txt == generate_statement(t, d)
          ls == SplitLines(txt)
      IN  /\ OccursAtLineStart(out, txt)
          /\ BeginsWithExactly(ls[1], 4 * d)
          /\ t.kind \in {"IfNode", "ForNode"} =>
               ls[Len(ls)] = Spaces(4 * d) \o <<"}">>
          /\ (t.kind = "IfNode" /\ Truthy(t.else_body)) =>
               \E k \in 1..Len(ls) : ls[k] = Spaces(4 * d) \o <<"}", " ", "e", "l", "s", "e", " ", "{">>

\* A loop inside a conditional, rendered from depth 1: its body is at 3.
C10_Witness ==
  /\ pc = "done"
  /\ input.indent = 1
  /\ input.stmt.kind = "IfNode"
  /\ Len(input.stmt.if_body) = 2
  /\ input.stmt.if_body[2].kind = "ForNode"
  /\ Len(input.stmt.if_body[2].body) = 2
  /\ \E k \in 1..Len(SplitLines(out)) :
       SplitLines(out)[k] = Spaces(12) \o <<"x", " ", "=", " ", "(", "x", " ", "+", " ", "1", ".", "0", ")", ";">>

(***************************************************************************)
(* Functions: the entry point and others, with bodies that hold explicit   *)
(* returns, also nested ones and returns of the variable output.           *)
(***************************************************************************)
FuncNames == { <<"m", "a", "i", "n">>, <<"a", "d", "d">>, <<"M", "a", "i", "n">> }

ReturnTypes == { PyStr(<<"v", "o", "i", "d">>), PyStr(<<"v", "e", "c", "4">>) }

ParamChoices == { <<PyStr(<<"v", "e", "c", "3">>), <<"a">>>>, <<PyStr(<<"f", "l", "o", "a", "t">>), <<"b">>>> }

\* Every list of at most n elements of S.
ListsUpTo(S, n) == UNION { [1..k -> S] : k \in 0..n }

FuncBodies == Bodies(Inner(1))

Functions ==
  { FunctionNode(rt, name, params, body) :
      <<rt, name, params, body>> \in
        ReturnTypes \X FuncNames \X ListsUpTo(ParamChoices, MaxParams)
        \X FuncBodies }

InitFunc ==
  /\ input \in Functions
  /\ out = <<>>
  /\ pc = "ready"
  /\ locals = <<>>

GenerateFunction ==
  /\ pc = "ready"
  /\ out' = generate_function(input)
  /\ pc' = "done"
  /\ UNCHANGED <<input, locals>>

NextFunc == GenerateFunction

SpecFunc == InitFunc /\ [][NextFunc]_vars

\* The texts of a list of texts, one after the other.
RECURSIVE ConcatAll(_)
ConcatAll(texts) ==
  IF texts = <<>> THEN <<>> ELSE Head(texts) \o ConcatAll(Tail(texts))

DeclLine == <<" ", " ", " ", " ", "P", "S", "_", "O", "U", "T", "P", "U", "T", " ", "o", "u", "t", "p", "u", "t", ";">>

\* The indices of the lines of ls that, stripped, are l.
LinesThatAre(ls, l) == {k \in 1..Len(ls) : Strip(ls[k]) = l}

(***************************************************************************)
(* C2: the text of the entry function declares the output record exactly   *)
(* once, on the first line of the body, and returns it exactly once, on    *)
(* the last line of the body, whatever returns the original body holds.    *)
(***************************************************************************)
C2_OutputDeclaredAndReturnedOnce ==
  pc = "done" /\ input.name = <<"m", "a", "i", "n">> =>
    LET ls == SplitLines(out) IN
      /\ ls[2] = DeclLine
      /\ LinesThatAre(ls, <<"P", "S", "_", "O", "U", "T", "P", "U", "T", " ", "o", "u", "t", "p", "u", "t", ";">>) = {2}
      /\ ls[Len(ls) - 1] = <<" ", " ", " ", " ", "r", "e", "t", "u", "r", "n", " ", "o", "u", "t", "p", "u", "t", ";">>
      /\ LinesThatAre(ls, <<"r", "e", "t", "u", "r", "n", " ", "o", "u", "t", "p", "u", "t", ";">>) = {Len(ls) - 1}

(***************************************************************************)
(* C3: a function named main gets the header                               *)
(* "PS_OUTPUT main(VS_INPUT input) {", the output record declaration and   *)
(* "return output;" around its body; every other function gets its mapped *)
(* return type, its name and its parameters "map_type(type) name" in       *)
(* order, and nothing is added to its body.                                *)
(***************************************************************************)
C3_AdaptationExactlyForMain ==
  pc = "done" =>
    LET ls == SplitLines(out)
        body == GenerateBody(input.body, 1, 1)
        n == Len(input.params)
        param(i) == Str(map_type(input.params[i][1])) \o <<" ">>
                    \o input.params[i][2]
                    \o (IF i < n THEN <<",", " ">> ELSE <<>>)
        plain == Str(map_type(input.return_type)) \o <<" ">> \o input.name
                 \o <<"(">> \o ConcatAll([i \in 1..n |-> param(i)]) \o <<")", " ", "{">>
    IN  IF input.name = <<"m", "a", "i", "n">>
        THEN /\ ls[1] = <<"P", "S", "_", "O", "U", "T", "P", "U", "T", " ", "m", "a", "i", "n", "(", "V", "S", "_", "I", "N", "P", "U", "T", " ", "i", "n", "p", "u", "t", ")", " ", "{">>
             /\ out = ls[1] \o <<"\n">> \o DeclLine \o <<"\n">> \o body
                      \o <<" ", " ", " ", " ", "r", "e", "t", "u", "r", "n", " ", "o", "u", "t", "p", "u", "t", ";", "\n", "}", "\n">>
        ELSE /\ ls[1] = plain
             /\ out = plain \o <<"\n">> \o body \o <<"}", "\n">>

\* A function of two parameters whose name differs from main only by case.
C3_Witness ==
  /\ pc = "done"
  /\ input.name = <<"M", "a", "i", "n">>
  /\ Len(input.params) = 2
  /\ out = <<"f", "l", "o", "a", "t", "4", " ", "M", "a", "i", "n", "(", "f", "l", "o", "a", "t", "3", " ", "a", ",", " ", "f", "l", "o", "a", "t", " ", "b", ")", " ", "{", "\n", " ", " ", " ", " ", "r", "e", "t", "u", "r", "n", " ", "o", "u", "t", "p", "u", "t", ";", "\n", "}", "\n">>

(***************************************************************************)
(* Programs, and values that are no ShaderNode.                            *)
(***************************************************************************)
InputChoices ==
  { <<PyStr(<<"v", "e", "c", "3">>), <<"p", "o", "s", "i", "t", "i", "o", "n">>>>, <<PyStr(<<"f", "l", "o", "a", "t">>), <<"d", "e", "p", "t", "h">>>> }

OutputChoices ==
  { <<PyStr(<<"v", "e", "c", "4">>), <<"c", "o", "l", "o", "r">>>>, <<PyStr(<<"s", "a", "m", "p", "l", "e", "r", "2", "D">>), <<"t", "e", "x">>>> }

\* void main() { color = vec4(position, 1.0); }
MainFunction ==
  FunctionNode(PyStr(<<"v", "o", "i", "d">>), <<"m", "a", "i", "n">>, <<>>,
    << AssignmentNode(Var(<<"c", "o", "l", "o", "r">>),
         FunctionCallNode(<<"v", "e", "c", "4">>, <<Var(<<"p", "o", "s", "i", "t", "i", "o", "n">>), One>>)) >>)

\* float add(float a, float b) { return (a + b); }
AddFunction ==
  FunctionNode(PyStr(<<"f", "l", "o", "a", "t">>), <<"a", "d", "d">>,
    << <<PyStr(<<"f", "l", "o", "a", "t">>), <<"a">>>>, <<PyStr(<<"f", "l", "o", "a", "t">>), <<"b">>>> >>,
    << ReturnNode(BinaryOpNode(Var(<<"a">>), PyStr(<<"P", "L", "U", "S">>), Var(<<"b">>))) >>)

Shaders ==
  { ShaderNode(i, o, f) :
      <<i, o, f>> \in ListsUpTo(InputChoices, MaxIO)
                      \X ListsUpTo(OutputChoices, MaxIO)
                      \X ListsUpTo({MainFunction, AddFunction}, MaxFuncs) }

InitShader ==
  /\ input \in Shaders \cup { MainFunction, PyNone }
  /\ out = <<>>
  /\ pc = "ready"
  /\ locals = <<>>

Generate ==
  /\ pc = "ready"
  /\ out' = generate(input)
  /\ pc' = "done"
  /\ UNCHANGED <<input, locals>>

NextShader == Generate

SpecShader == InitShader /\ [][NextShader]_vars

\* The field line of the i-th (0-based) parameter of a record.
FieldLine(param, semantic, i) ==
  Spaces(4) \o Str(map_type(param[1])) \o <<" ">> \o param[2]
  \o <<" ", ":", " ">> \o semantic \o NatToText(i) \o <<";">>

(***************************************************************************)
(* C1: the input record has exactly one field per input parameter and the  *)
(* output record one per output parameter; the i-th parameter (0-based) is *)
(* the i-th field, with the mapped type, the name and the index i.         *)
(***************************************************************************)
C1_RecordFieldsIndexedInOrder ==
  pc = "done" /\ input.kind = "ShaderNode" =>
    LET ls == SplitLines(out)
        k == Len(input.inputs)
        m == Len(input.outputs)
    IN  /\ ls[1] = <<"s", "t", "r", "u", "c", "t", " ", "V", "S", "_", "I", "N", "P", "U", "T", " ", "{">>
        /\ \A i \in 0..(k - 1) :
             ls[2 + i] = FieldLine(input.inputs[i + 1], <<"P", "O", "S", "I", "T", "I", "O", "N">>, i)
        /\ ls[k + 2] = <<"}", ";">>
        /\ ls[k + 3] = <<>>
        /\ ls[k + 4] = <<"s", "t", "r", "u", "c", "t", " ", "P", "S", "_", "O", "U", "T", "P", "U", "T", " ", "{">>
        /\ \A i \in 0..(m - 1) :
             ls[k + 5 + i] = FieldLine(input.outputs[i + 1], <<"S", "V", "_", "T", "A", "R", "G", "E", "T">>, i)
        /\ ls[k + m + 5] = <<"}", ";">>
        /\ ls[k + m + 6] = <<>>
        /\ Cardinality({j \in 1..Len(ls) : Contains(ls[j], <<" ", ":", " ", "P", "O", "S", "I", "T", "I", "O", "N">>)}) = k
        /\ Cardinality({j \in 1..Len(ls) : Contains(ls[j], <<" ", ":", " ", "S", "V", "_", "T", "A", "R", "G", "E", "T">>)}) = m

\* Two inputs and two outputs were declared; the second of each has index 1.
C1_Witness ==
  /\ pc = "done"
  /\ input.kind = "ShaderNode"
  /\ Len(input.inputs) = 2
  /\ Len(input.outputs) = 2
  /\ SplitLines(out)[3] = <<" ", " ", " ", " ", "f", "l", "o", "a", "t", " ", "d", "e", "p", "t", "h", " ", ":", " ", "P", "O", "S", "I", "T", "I", "O", "N", "1", ";">>
  /\ SplitLines(out)[8] = <<" ", " ", " ", " ", "f", "l", "o", "a", "t", "4", " ", "c", "o", "l", "o", "r", " ", ":", " ", "S", "V", "_", "T", "A", "R", "G", "E", "T", "1", ";">>

(***************************************************************************)
(* C6: the output is the input record, a blank line, the output record, a  *)
(* blank line, then the definition of each function of the program, in the *)
(* program's order, each followed by a blank line.                         *)
(***************************************************************************)
C6_RecordsThenFunctionsInOrder ==
  pc = "done" /\ input.kind = "ShaderNode" =>
    out = <<"s", "t", "r", "u", "c", "t", " ", "V", "S", "_", "I", "N", "P", "U", "T", " ", "{", "\n">>
          \o StructFields(input.inputs, <<"P", "O", "S", "I", "T", "I", "O", "N">>, 0)
          \o <<"}", ";", "\n">> \o <<"\n">>
          \o <<"s", "t", "r", "u", "c", "t", " ", "P", "S", "_", "O", "U", "T", "P", "U", "T", " ", "{", "\n">>
          \o StructFields(input.outputs, <<"S", "V", "_", "T", "A", "R", "G", "E", "T">>, 0)
          \o <<"}", ";", "\n">> \o <<"\n">>
          \o ConcatAll([i \in 1..Len(input.functions) |->
                          generate_function(input.functions[i]) \o <<"\n">>])

\* add before main: both were emitted, in that order, a blank line between.
C6_Witness ==
  /\ pc = "done"
  /\ input.kind = "ShaderNode"
  /\ input.functions = <<AddFunction, MainFunction>>
  /\ Contains(out, <<"f", "l", "o", "a", "t", " ", "a", "d", "d", "(", "f", "l", "o", "a", "t", " ", "a", ",", " ", "f", "l", "o", "a", "t", " ", "b", ")", " ", "{", "\n", " ", " ", " ", " ", "r", "e", "t", "u", "r", "n", " ", "(", "a", " ", "+", " ", "b", ")", ";", "\n", "}", "\n", "\n", "P", "S", "_", "O", "U", "T", "P", "U", "T", " ", "m", "a", "i", "n", "(", "V", "S", "_", "I", "N", "P", "U", "T", " ", "i", "n", "p", "u", "t", ")", " ", "{", "\n">>)

====
